---- MODULE Spec2Model ----
(***************************************************************************)
(* StatsClient (src/src/helpers/StatsClient.ts): a process-wide singleton  *)
(* that merges metric updates into a Map keyed by                          *)
(* metricName + '/' + JSON.stringify(tags) and, on every timer tick,       *)
(* sends each entry to a StatsD client and zeroes the increment entries.   *)
(*                                                                         *)
(* Node runs every handler (init, addOrUpdateMetrics, the setInterval      *)
(* callback) to completion on one thread, so each handler is one action.   *)
(* The StatsD client (hot-shots) is outside the repository: a call on it   *)
(* either returns or throws, and the model takes both outcomes.            *)
(***************************************************************************)
EXTENDS Integers, Sequences, FiniteSets

VARIABLES
    instance,   \* StatsClient.instance: 0 while undefined, else the handle of the object
    metrics,    \* this.metrics: the Map, as its entries [key, val] in insertion order
    client,     \* this.client: the protocol the StatsD client was built with, or NoClient
    interval,   \* this.interval: the period of the setInterval timer, or NoTimer
    created,    \* how many StatsClient objects, StatsD clients and timers were ever made
    nUpdates,   \* how many batch entries addOrUpdateMetrics has merged so far
    op,         \* the handler that ran last
    ret,        \* what the last handler returned (0 for undefined / void)
    sent,       \* the calls the last handler made on the StatsD client, in order
    arg         \* the batch the last handler was given (<<>> unless it was addOrUpdateMetrics)

vars == <<instance, metrics, client, interval, created, nUpdates, op, ret, sent, arg>>

(***************************************************************************)
(* Bounds and input sets                                                   *)
(***************************************************************************)
MaxUpdates == 2

Values == {1, 2}

BatchKeys == {"reqs", "x"}

MetricNames == {"reqs"}

\* JavaScript's undefined, for the string-valued options.
UNDEFINED == "<undefined>"

UndefinedMs == -1

\* timerInMs = 10 * 60 * 1000
DefaultTimerInMs == 600000

\* The values of the environement option.
EnvOptions == {UNDEFINED, "", "production"}

\* The values of process.env.NODE_ENV.
NodeEnvs == {UNDEFINED, "development"}

TimerOptions == {UndefinedMs, 1000}

NoClient == "<no client>"

NoTimer == 0

\* tags?: Tags -- either omitted or an object, whose keys keep insertion order.
NoTags == [def |-> FALSE, kv |-> <<>>]

TagsAB == [def |-> TRUE, kv |-> << <<"a", "1">>, <<"b", "2">> >>]

TagsBA == [def |-> TRUE, kv |-> << <<"b", "2">>, <<"a", "1">> >>]

TagChoices == {NoTags, TagsAB, TagsBA}

GAUGE == "gauge"

INCREMENT == "increment"

MetricsType == {GAUGE, INCREMENT}

MetricOptions ==
    [metricName : MetricNames, type : MetricsType, value : Values, tags : TagChoices]

\* One batch entry: the key of the `metrics` object and the options under it.
\* Tagged updates are drawn under the key "reqs" only.
BatchEntries ==
    {e \in [key : BatchKeys, options : MetricOptions] :
        e.key = "reqs" \/ e.options.tags = NoTags}

\* The `metrics` objects a caller passes: one entry, or the same untagged options
\* under both batch keys (Object.entries lists string keys in insertion order).
Batches ==
    {<<e>> : e \in BatchEntries}
    \cup UNION {{<<e, [e EXCEPT !.key = k]>> : k \in BatchKeys \ {e.key}} :
                    e \in {b \in BatchEntries : b.options.tags = NoTags}}

(***************************************************************************)
(* Helpers: JSON.stringify, object spread, Map                             *)
(***************************************************************************)
RECURSIVE Flatten(_)
Flatten(kv) ==
    IF kv = <<>> THEN <<>>
    ELSE <<Head(kv)[1], ":", Head(kv)[2]>> \o Flatten(Tail(kv))

\* JSON.stringify(options.tags): undefined for omitted tags (which the string
\* concatenation turns into "undefined"), else the pairs in the object's own order.
JSONstringify(tags) ==
    IF tags.def THEN <<"{">> \o Flatten(tags.kv) \o <<"}">> ELSE <<"undefined">>

\* { ...tags }: a fresh object with the same pairs in the same order; {} for undefined.
Spread(tags) == [def |-> TRUE, kv |-> tags.kv]

MapHas(m, k) == \E i \in 1..Len(m) : m[i].key = k

MapGet(m, k) == m[CHOOSE i \in 1..Len(m) : m[i].key = k].val

MapSet(m, k, v) ==
    IF MapHas(m, k)
    THEN [i \in 1..Len(m) |-> IF m[i].key = k THEN [key |-> k, val |-> v] ELSE m[i]]
    ELSE Append(m, [key |-> k, val |-> v])

\* Truthy, were the test `environement !== undefined`.
TruthyUnlessUndefined(s) == s # UNDEFINED

\* if (environement)
Truthy(s) == s # UNDEFINED /\ s # ""

(***************************************************************************)
(* static init({ timerInMs, environement, logger })                        *)
(***************************************************************************)
\* The destructuring defaults: they apply when the option is undefined.
DefaultedTimerInMs(timerInMs) ==
    IF timerInMs = UndefinedMs THEN DefaultTimerInMs ELSE timerInMs

DefaultedEnvironement(environement, nodeEnv) ==
    IF environement = UNDEFINED THEN nodeEnv ELSE environement

\* The default initializer reads process.env.NODE_ENV only when the option is undefined.
NodeEnvRead(environement) == IF environement = UNDEFINED THEN NodeEnvs ELSE {UNDEFINED}

\* new StatsD({ protocol: environement === 'production' ? 'uds' : undefined })
Protocol(environement) == IF environement = "production" THEN "uds" ELSE UNDEFINED

\* InstanceOrNew, were init to construct an object on every call.
AlwaysNew(inst, fresh) == fresh

\* this.instance || (this.instance = new StatsClient(...)), `fresh` being the new object.
InstanceOrNew(inst, fresh) == IF inst # 0 THEN inst ELSE fresh

\* The constructor: a new Map, a new StatsD client and, the new object having no
\* interval yet, a new timer.
Constructor(handle, timerInMs, environement) ==
    /\ instance' = handle
    /\ metrics' = <<>>
    /\ client' = Protocol(environement)
    /\ interval' = timerInMs
    /\ created' = [instances |-> created.instances + 1,
                   clients |-> created.clients + 1,
                   timers |-> created.timers + 1]

\* init, were it to apply the interval of a repeated call to the existing instance.
initReconfiguring(timerOption, envOption, nodeEnv) ==
    LET timerInMs == DefaultedTimerInMs(timerOption)
        environement == DefaultedEnvironement(envOption, nodeEnv)
        handle == InstanceOrNew(instance, created.instances + 1)
    IN  /\ op' = "init"
        /\ sent' = <<>>
        /\ arg' = <<>>
        /\ UNCHANGED nUpdates
        /\ IF Truthy(environement)
           THEN /\ ret' = handle
                /\ IF handle = instance
                   THEN /\ interval' = timerInMs
                        /\ UNCHANGED <<instance, metrics, client, created>>
                   ELSE Constructor(handle, timerInMs, environement)
           ELSE /\ ret' = 0
                /\ UNCHANGED <<instance, metrics, client, interval, created>>

init(timerOption, envOption, nodeEnv) ==
    LET timerInMs == DefaultedTimerInMs(timerOption)
        environement == DefaultedEnvironement(envOption, nodeEnv)
        handle == InstanceOrNew(instance, created.instances + 1)
    IN  /\ op' = "init"
        /\ sent' = <<>>
        /\ arg' = <<>>
        /\ UNCHANGED nUpdates
        /\ IF Truthy(environement)
           THEN /\ ret' = handle
                /\ IF handle = instance
                   THEN UNCHANGED <<instance, metrics, client, interval, created>>
                   ELSE Constructor(handle, timerInMs, environement)
           ELSE /\ ret' = 0
                /\ UNCHANGED <<instance, metrics, client, interval, created>>

(***************************************************************************)
(* addOrUpdateMetrics({ metrics })                                         *)
(***************************************************************************)
customKeyOf(metricName, options) == <<metricName, "/">> \o JSONstringify(options.tags)

\* MergedEntry, were the supplied value to replace the stored one.
MergedEntryReplacing(metricName, metricOptions, options) ==
    [metricName |-> metricName,
     type |-> metricOptions.type,
     value |-> options.value,
     tags |-> Spread(options.tags)]

\* MergedEntry, were the type of the update to overwrite the stored one.
MergedEntryRetyping(metricName, metricOptions, options) ==
    [metricName |-> metricName,
     type |-> options.type,
     value |-> metricOptions.value + options.value,
     tags |-> Spread(options.tags)]

\* MergedEntry, were a gauge to take the supplied value and only a counter to add.
MergedEntryGaugeReplaces(metricName, metricOptions, options) ==
    [metricName |-> metricName,
     type |-> metricOptions.type,
     value |-> IF metricOptions.type = GAUGE THEN options.value
               ELSE metricOptions.value + options.value,
     tags |-> Spread(options.tags)]

\* The entry written when the key is already in the Map.
MergedEntry(metricName, metricOptions, options) ==
    [metricName |-> metricName,
     type |-> metricOptions.type,
     value |-> metricOptions.value + options.value,
     tags |-> Spread(options.tags)]

\* InsertedEntry, were the entry named by options.metricName.
InsertedEntryNamedByField(metricName, options) ==
    [metricName |-> options.metricName,
     type |-> options.type,
     value |-> options.value,
     tags |-> options.tags]

\* The entry written when the key is new.
InsertedEntry(metricName, options) ==
    [metricName |-> metricName,
     type |-> options.type,
     value |-> options.value,
     tags |-> options.tags]

\* One iteration of the forEach; metricName is the key of the batch object.
AddOrUpdateOne(m, metricName, options) ==
    LET customKey == customKeyOf(metricName, options)
    IN  IF MapHas(m, customKey)
        THEN MapSet(m, customKey, MergedEntry(metricName, MapGet(m, customKey), options))
        ELSE MapSet(m, customKey, InsertedEntry(metricName, options))

RECURSIVE AddOrUpdateAll(_, _)
AddOrUpdateAll(m, batch) ==
    IF batch = <<>> THEN m
    ELSE AddOrUpdateAll(AddOrUpdateOne(m, Head(batch).key, Head(batch).options), Tail(batch))

\* addOrUpdateMetrics, were it to send every supplied value to the client at once.
addOrUpdateMetricsSending(batch) ==
    /\ instance # 0
    /\ nUpdates + Len(batch) <= MaxUpdates
    /\ metrics' = AddOrUpdateAll(metrics, batch)
    /\ nUpdates' = nUpdates + Len(batch)
    /\ op' = "addOrUpdateMetrics"
    /\ ret' = 0
    /\ sent' = [j \in 1..Len(batch) |->
                  [method |-> batch[j].options.type,
                   stat |-> batch[j].key,
                   value |-> batch[j].options.value,
                   tags |-> Spread(batch[j].options.tags),
                   outcome |-> "ok"]]
    /\ arg' = batch
    /\ UNCHANGED <<instance, client, interval, created>>

addOrUpdateMetrics(batch) ==
    /\ instance # 0
    /\ nUpdates + Len(batch) <= MaxUpdates
    /\ metrics' = AddOrUpdateAll(metrics, batch)
    /\ nUpdates' = nUpdates + Len(batch)
    /\ op' = "addOrUpdateMetrics"
    /\ ret' = 0
    /\ sent' = <<>>
    /\ arg' = batch
    /\ UNCHANGED <<instance, client, interval, created>>

(***************************************************************************)
(* sendStats(), run by the setInterval callback                            *)
(***************************************************************************)
\* resetIncrementMetric, were it to delete the entry.
resetIncrementMetricDeleting(m, customKey, metricName) ==
    SelectSeq(m, LAMBDA e : e.key # customKey)

\* resetIncrementMetric, were it to write the entry back without its tags.
resetIncrementMetricDroppingTags(m, customKey, metricName) ==
    LET metricOptions == MapGet(m, customKey)
    IN  MapSet(m, customKey,
               [metricName |-> metricName,
                type |-> metricOptions.type,
                value |-> 0,
                tags |-> Spread(NoTags)])

resetIncrementMetric(m, customKey, metricName) ==
    LET metricOptions == MapGet(m, customKey)
    IN  MapSet(m, customKey,
               [metricName |-> metricName,
                type |-> metricOptions.type,
                value |-> 0,
                tags |-> Spread(metricOptions.tags)])

\* this.client.gauge / this.client.increment with the entry's name, value and tags.
ClientCall(options, outcome) ==
    [method |-> IF options.type = GAUGE THEN "gauge" ELSE "increment",
     stat |-> options.metricName,
     value |-> options.value,
     tags |-> Spread(options.tags),
     outcome |-> outcome]

\* AfterCall, were the reset to run for every entry.
AfterCallResetAll(m, customKey, options) ==
    resetIncrementMetric(m, customKey, options.metricName)

\* What the forEach body does to the Map once the client call has returned: nothing
\* for a gauge, resetIncrementMetric for anything else.
AfterCall(m, customKey, options) ==
    IF options.type = GAUGE THEN m
    ELSE resetIncrementMetric(m, customKey, options.metricName)

\* The forEach over [...this.metrics.entries()] from entry i on. The client call on
\* entry throwAt throws (0: none does): the exception leaves the forEach and
\* sendStats at once, so neither the reset of that entry nor any later entry runs.
RECURSIVE SendFrom(_, _, _, _)
SendFrom(m, entries, i, throwAt) ==
    IF i > Len(entries) THEN [metrics |-> m, sent |-> <<>>]
    ELSE LET customKey == entries[i].key
             options == entries[i].val
         IN  IF i = throwAt
             THEN [metrics |-> m, sent |-> <<ClientCall(options, "throw")>>]
             ELSE LET after == AfterCall(m, customKey, options)
                      rest == SendFrom(after, entries, i + 1, throwAt)
                  IN  [metrics |-> rest.metrics,
                       sent |-> <<ClientCall(options, "ok")>> \o rest.sent]

sendStats(m, throwAt) == SendFrom(m, m, 1, throwAt)

\* setInterval(() => this.sendStats(), timerInMs) fires.
TimerTick(throwAt) ==
    /\ interval # NoTimer
    /\ LET r == sendStats(metrics, throwAt)
       IN  /\ metrics' = r.metrics
           /\ sent' = r.sent
    /\ op' = "sendStats"
    /\ ret' = 0
    /\ arg' = <<>>
    /\ UNCHANGED <<instance, client, interval, created, nUpdates>>

(***************************************************************************)
(* Specification                                                           *)
(***************************************************************************)
Init ==
    /\ instance = 0
    /\ metrics = <<>>
    /\ client = NoClient
    /\ interval = NoTimer
    /\ created = [instances |-> 0, clients |-> 0, timers |-> 0]
    /\ nUpdates = 0
    /\ op = "none"
    /\ ret = 0
    /\ sent = <<>>
    /\ arg = <<>>

Next ==
    \/ \E t \in TimerOptions, e \in EnvOptions :
          \E n \in NodeEnvRead(e) : init(t, e, n)
    \/ \E batch \in Batches : addOrUpdateMetrics(batch)
    \/ \E throwAt \in 0..Len(metrics) : TimerTick(throwAt)

Spec == Init /\ [][Next]_vars

\* setInterval keeps firing: the timer callback runs again and again.
FairSpec == Spec /\ WF_vars(\E throwAt \in 0..Len(metrics) : TimerTick(throwAt))

(***************************************************************************)
(* Properties                                                              *)
(***************************************************************************)
state == <<instance, metrics, client, interval, created>>

Entries == 1..Len(metrics)

\* The value stored under key k, 0 when the Map has no such key.
ValueAt(m, k) == IF MapHas(m, k) THEN MapGet(m, k).value ELSE 0

\* The tag set of an entry: its pairs without their order; empty for omitted tags.
TagSet(tags) == {tags.kv[n] : n \in 1..Len(tags.kv)}

\* An init call that passes no designator: the option is empty, or it is
\* undefined and process.env.NODE_ENV, its default, is unset or empty.
NoDesignator(envOption, nodeEnv) ==
    \/ envOption = ""
    \/ envOption = UNDEFINED /\ nodeEnv \in {UNDEFINED, ""}

C2_CountersZeroAfterFlush ==
    op = "sendStats" => \A i \in Entries : metrics[i].val.type = INCREMENT => metrics[i].val.value = 0

\* C3: a flush cycle leaves every GAUGE entry, and its place in the Map, as it was.
C3_GaugeUnchangedByFlush ==
    [][op' = "sendStats" =>
          /\ Len(metrics') = Len(metrics)
          /\ \A i \in Entries :
                metrics[i].val.type = GAUGE =>
                    /\ metrics'[i].key = metrics[i].key
                    /\ metrics'[i].val.value = metrics[i].val.value]_vars

\* C3 witness: a flush cycle has run over a GAUGE entry that two updates brought
\* to 3, and the entry still holds 3.
C3_Witness ==
    /\ op = "sendStats"
    /\ \E i \in Entries :
          /\ metrics[i].val.type = GAUGE
          /\ metrics[i].val.value = 3
          /\ i <= Len(sent)
          /\ sent[i].outcome = "ok"

\* C4: a flush cycle makes one client call per entry of the Map, in order: gauge
\* for a GAUGE entry and increment for any other, with the entry's name, value
\* and tags.
C4_OneCallPerEntry ==
    [][op' = "sendStats" =>
          /\ Len(sent') = Len(metrics)
          /\ \A i \in Entries :
                /\ sent'[i].method = (IF metrics[i].val.type = GAUGE THEN "gauge" ELSE "increment")
                /\ sent'[i].stat = metrics[i].val.metricName
                /\ sent'[i].value = metrics[i].val.value
                /\ TagSet(sent'[i].tags) = TagSet(metrics[i].val.tags)]_vars

\* C5: no supplied value is lost or counted twice. In every reachable state the
\* deltas handed to the client plus the value still in the Map equal the values
\* supplied; stated step by step: an update adds exactly what it supplies (C1),
\* and a flush cycle takes out of each INCREMENT entry exactly the delta it
\* hands to the client for it.
C5_CounterConservation ==
    [][op' = "sendStats" =>
          \A i \in Entries :
              metrics[i].val.type = INCREMENT =>
                  metrics[i].val.value
                    = metrics'[i].val.value + (IF i <= Len(sent') THEN sent'[i].value ELSE 0)]_vars

\* C6: the Map holds at most one entry per (name, tag set).
C6_OneEntryPerIdentity ==
    \A i, j \in Entries :
        (/\ metrics[i].val.metricName = metrics[j].val.metricName
         /\ TagSet(metrics[i].val.tags) = TagSet(metrics[j].val.tags)) => i = j

\* C7: after an update of kind GAUGE to a GAUGE entry, the entry holds the
\* supplied value.
C7_GaugeLastWriteWins ==
    [][op' = "addOrUpdateMetrics" =>
          \A batch \in Batches :
              addOrUpdateMetrics(batch) =>
                  \A j \in 1..Len(batch) :
                      LET k == customKeyOf(batch[j].key, batch[j].options)
                      IN  (batch[j].options.type = GAUGE /\ MapGet(metrics', k).type = GAUGE)
                              => MapGet(metrics', k).value = batch[j].options.value]_vars

\* C8: at most one StatsClient, one StatsD client and one timer are ever made,
\* every init call with a truthy designator returns the handle of the first
\* object, and that object stays the instance.
C8_Singleton ==
    [][/\ created'.instances <= 1
       /\ created'.clients <= 1
       /\ created'.timers <= 1
       /\ instance # 0 => instance' = instance
       /\ op' = "init" =>
            \A t \in TimerOptions, e \in EnvOptions, n \in NodeEnvs :
                (init(t, e, n) /\ ~NoDesignator(e, n)) => (ret' = 1 /\ instance' = 1)]_vars

\* C8 witness: init has returned the handle after the instance had already taken
\* updates, that is, on a repeated call.
C8_Witness == op = "init" /\ ret = 1 /\ metrics # <<>> /\ created.instances = 1

\* C9 as claimed: an init call whose environement option is empty or undefined
\* creates nothing and returns nothing.
C9_NoOptionNoInstance ==
    [][op' = "init" =>
          \A t \in TimerOptions, e \in EnvOptions, n \in NodeEnvs :
              (init(t, e, n) /\ e \in {UNDEFINED, ""}) => (ret' = 0 /\ state' = state)]_vars

\* C9 as amended: an init call whose designator is empty, or undefined with
\* process.env.NODE_ENV unset or empty, creates nothing and returns nothing; and
\* while there is no instance there is no client, no Map entry and no timer, and
\* no flush cycle has run.
C9_NoDesignatorNoInstance ==
    /\ [](instance = 0 =>
            /\ client = NoClient
            /\ interval = NoTimer
            /\ metrics = <<>>
            /\ created = [instances |-> 0, clients |-> 0, timers |-> 0]
            /\ op # "sendStats")
    /\ [][op' = "init" =>
            \A t \in TimerOptions, e \in EnvOptions, n \in NodeEnvs :
                (init(t, e, n) /\ NoDesignator(e, n)) => (ret' = 0 /\ state' = state)]_vars

\* C9 witness: init has been called without a designator and there is no instance.
C9_Witness == op = "init" /\ ret = 0 /\ instance = 0

\* C10 as claimed: once there is an instance, every init call returns it and
\* changes nothing.
C10_ReinitReturnsInstance ==
    [][(instance # 0 /\ op' = "init") => (ret' = instance /\ state' = state)]_vars

\* C10 as amended: once there is an instance, every init call changes nothing;
\* it returns the instance when it has a truthy designator and nothing otherwise.
C10_ReinitChangesNothing ==
    [][(instance # 0 /\ op' = "init") =>
          /\ state' = state
          /\ \A t \in TimerOptions, e \in EnvOptions, n \in NodeEnvs :
                init(t, e, n) => ret' = (IF NoDesignator(e, n) THEN 0 ELSE instance)]_vars

\* C10 witness: a repeated init call, on an instance holding entries and built
\* with the default interval, has returned nothing.
C10_Witness ==
    /\ op = "init"
    /\ ret = 0
    /\ instance # 0
    /\ metrics # <<>>
    /\ interval = DefaultTimerInMs

\* The Map key of entry j of the batch the last call was given.
ArgKey(j) == customKeyOf(arg[j].key, arg[j].options)

C12_FailureIsolated ==
    (op = "sendStats" /\ \E i \in 1..Len(sent) : sent[i].outcome = "throw")
        => Len(sent) = Len(metrics)

\* C13: client calls are made by the flush cycle only; after init and after
\* addOrUpdateMetrics none has been made.
C13_UpdateNeverSends == sent # <<>> => op = "sendStats"

\* C13 witness: addOrUpdateMetrics has merged a batch of two entries into the Map
\* and made no client call.
C13_Witness ==
    /\ op = "addOrUpdateMetrics"
    /\ Len(arg) = 2
    /\ Len(metrics) = 2
    /\ sent = <<>>

\* C14: the type of an entry is the type of the update that inserted it and no
\* step changes it; an update of another type to the same key is still added to
\* the value, and a flush cycle calls gauge or increment by the stored type.
C14_KindFixedAtInsertion ==
    [][/\ \A i \in Entries :
            /\ i <= Len(metrics')
            /\ metrics'[i].key = metrics[i].key
            /\ metrics'[i].val.type = metrics[i].val.type
       /\ op' = "addOrUpdateMetrics" =>
            \A j \in 1..Len(arg') :
                IF MapHas(metrics, ArgKey(j)')
                THEN /\ MapGet(metrics', ArgKey(j)').type = MapGet(metrics, ArgKey(j)').type
                     /\ MapGet(metrics', ArgKey(j)').value
                          = MapGet(metrics, ArgKey(j)').value + arg'[j].options.value
                ELSE MapGet(metrics', ArgKey(j)').type = arg'[j].options.type
       /\ op' = "sendStats" =>
            \A i \in 1..Len(sent') :
                /\ sent'[i].method = metrics[i].val.type
                /\ (sent'[i].outcome = "ok" /\ metrics[i].val.type = INCREMENT)
                      => metrics'[i].val.value = 0
                /\ metrics[i].val.type = GAUGE
                      => metrics'[i].val.value = metrics[i].val.value]_vars

\* C14 witness: an update of one type has just been merged into an entry of the
\* other type, which kept its type and holds the sum 3.
C14_Witness ==
    /\ op = "addOrUpdateMetrics"
    /\ Len(arg) = 1
    /\ MapGet(metrics, ArgKey(1)).type # arg[1].options.type
    /\ MapGet(metrics, ArgKey(1)).value = 3

\* C15: no step removes a key from the Map or moves it, and a flush cycle leaves
\* the keys exactly as they were.
C15_NoKeyRemoved ==
    [][/\ Len(metrics') >= Len(metrics)
       /\ \A i \in Entries : metrics'[i].key = metrics[i].key
       /\ op' = "sendStats" => Len(metrics') = Len(metrics)]_vars

\* C15 witness: a flush cycle has reset an INCREMENT entry of a Map of two
\* entries, and both are still there.
C15_Witness ==
    /\ op = "sendStats"
    /\ Len(metrics) = 2
    /\ Len(sent) = 2
    /\ \E i \in Entries :
          /\ metrics[i].val.type = INCREMENT
          /\ metrics[i].val.value = 0
          /\ sent[i].value > 0
          /\ sent[i].outcome = "ok"

C17_MergeAddsForBothKinds ==
    [][/\ op' = "addOrUpdateMetrics" =>
            \A j \in 1..Len(arg') :
                \A t \in MetricsType :
                    (MapHas(metrics, ArgKey(j)') /\ MapGet(metrics, ArgKey(j)').type = t)
                        => MapGet(metrics', ArgKey(j)').value
                             = MapGet(metrics, ArgKey(j)').value + arg'[j].options.value
       /\ op' = "sendStats" =>
            \A i \in 1..Len(sent') :
                /\ sent'[i].value = metrics[i].val.value
                /\ sent'[i].outcome = "ok" =>
                      metrics'[i].val.value
                        = (IF metrics[i].val.type = GAUGE THEN metrics[i].val.value ELSE 0)]_vars

\* C17 witness: a GAUGE update of 2 has just been merged into a GAUGE entry that
\* held 1, and the entry holds 3.
C17_Witness ==
    /\ op = "addOrUpdateMetrics"
    /\ Len(arg) = 1
    /\ arg[1].options.type = GAUGE
    /\ arg[1].options.value = 2
    /\ MapGet(metrics, ArgKey(1)).type = GAUGE
    /\ MapGet(metrics, ArgKey(1)).value = 3

\* C18: with the timer firing again and again, every INCREMENT entry that holds
\* a value is eventually handed to the client by an increment call.
C18_CountersEventuallySent ==
    \A i \in 1..MaxUpdates :
        (i <= Len(metrics) /\ metrics[i].val.type = INCREMENT /\ metrics[i].val.value > 0)
            ~> (op = "sendStats" /\ i <= Len(sent) /\ sent[i].method = "increment")

====
